---- MODULE Spec2Model ----
(***************************************************************************)
(* Model of the streaming note render pass of wasabi                       *)
(* (src/gui/window/scene/note_list_system/notes_render_pass.rs).           *)
(*                                                                         *)
(* The engine state is the fields of NoteRenderPass that draw() changes    *)
(* (buffer_set.index, depth_buffer, key_locations).  One call of draw() is  *)
(* a frame; it is cut at the points where the accelerator or the producer   *)
(* callback runs between two of its statements: BeginFrame (lines 244-272), *)
(* NextBuffer (275), Fill (277-366), WaitPrev (368-373), Submit (375-385)   *)
(* and Drain (388-393).  The accelerator finishes a submission in the       *)
(* action GpuComplete.                                                      *)
(*                                                                         *)
(* wait(None) has no timeout, and the fence future is consumed by the      *)
(* wait and dropped at the end of its block; a future that is dropped       *)
(* unfinished blocks until the queue is idle, except while the thread       *)
(* panics.  So control passes a wait only once the submission has left the  *)
(* queue, whether the wait returned Ok or Err; the Result is only printed.  *)
(***************************************************************************)
EXTENDS Integers, Sequences, FiniteSets, TLC

\* ---------------------------------------------------------------- bounds
\* Capacity of one vertex buffer in records (25000000 in the program).
NOTE_BUFFER_SIZE == 2
\* Slots of the key position table (256 in the program).
NumKeys == 2
\* Calls of draw() in one behaviour.
MaxFrames == 2
\* Passes of a frame whose producer does not follow its contract.
MaxPasses == 3
\* Width of a key id in bits (u8, 8 in the program) and of key_color and
\* color (u32, 32 in the program).
KeyBits == 2
WordBits == 5
\* Resolution of a Duration: ticks in a second (10^9 in the program).
TicksPerSec == 2
\* Latest time, in ticks, the timer reports to a layout call.
MaxTime == 5
\* Events delivered to one layout call.
MaxEvents == 2

\* Longest stream a contract-following producer is given: three passes.
MaxNotes == 2 * NOTE_BUFFER_SIZE + 1

\* Output image dimensions [width, height] a caller may pass.
Dims == {<<1, 1>>, <<2, 1>>, <<1, 2>>}
\* The dimensions no image has (no frame drawn yet).
NoDims == <<0, 0>>

\* Values of the argument view_range (an f32; integers stand for them).
ViewRanges == {1, 2}
\* KeyPosition values the geometry provider may supply.
Extent(l) == [left |-> l, right |-> l + 1]
Extents == {Extent(0), Extent(1)}

\* ---------------------------------------------------------------- types
\* NotePassStatus (lines 91-95); HasMoreNotes carries no payload.
HasMoreNotes == [tag |-> "HasMoreNotes", remaining |-> 0]
Finished(r) == [tag |-> "Finished", remaining |-> r]

\* Every status a producer can return; remaining may exceed the capacity.
Responses == {HasMoreNotes} \cup {Finished(r) : r \in 0..(NOTE_BUFFER_SIZE + 1)}

\* KeyPosition::default() (lines 97-103, 191).
DefaultKeyPosition == [left |-> 0, right |-> 0]

\* Sequences the keyboard geometry provider yields: one extent per key id,
\* covering the whole table (two layouts), or one key more than the table
\* has slots.
KeyViews ==
    {[i \in 1..NumKeys |-> Extent(0)], [i \in 1..NumKeys |-> Extent(1)],
     [i \in 1..(NumKeys + 1) |-> Extent(i % 2)]}

Min(a, b) == IF a <= b THEN a ELSE b

VARIABLES
    index,          \* buffer_set.index
    depth_dims,     \* dimensions of self.depth_buffer
    depth_id,       \* which depth image self.depth_buffer is (creations so far)
    key_locations,  \* content of self.key_locations[0]
    pc,             \* position of draw(): idle, next, fill, wait, submit, drain, panicked
    frame,          \* calls of draw() so far
    img_dims,       \* img_dims of the current (or last) frame
    key_view,       \* key_view.iter_all_notes() of the current frame
    view_range,     \* view_range of the current frame
    status,         \* local status
    first_pass,     \* local first_pass
    prev_future,    \* local prev_future: <<>> is None, <<submission>> is Some
    cmd,            \* command buffer built in this iteration: <<>> or <<pass>>
    gpu,            \* submissions the accelerator has not finished
    contract,       \* does this frame's producer follow its contract
    N,              \* length of the stream of a contract-following producer
    left,           \* records of that stream not yet written
    passes,         \* submissions of the current frame, in order
    log,            \* steps of the current frame, in order
    key_frame,      \* per slot of key_locations, the frame that last wrote it
    prev_dims,      \* img_dims of the frame before the current one
    prev_depth_id,  \* depth_id when the current frame was entered
    this_next,      \* buffer returned by the latest call of next(), -1 if none
    prev_next,      \* buffer returned by the call of next() before that
    this_drawn,     \* vertex buffer of the latest submission, -1 if none
    prev_drawn,     \* vertex buffer of the submission before that
    intact,         \* the attachments hold the output of every pass of the
                    \* current frame that the accelerator has finished
    answers,        \* what fill_buffer returned in the current frame, in order
    args,           \* arguments of a call of NoteVertex::new: <<>> or <<key, color>>
    vertex,         \* key_color of the NoteVertex that call returned, -1 if none
    time,           \* local time of the note panel closure (window.rs line 155)
    allows_seeking_backward,  \* midi_file.allows_seeking_backward()
    events,         \* events.events of the current layout call
    pos,            \* events of it the for loop has handled
    seeks           \* arguments of timer_mut().seek() in this call, in order

\* The state of NoteRenderPass::draw and of the accelerator.
draw_vars == <<index, depth_dims, depth_id, key_locations, pc, frame, img_dims,
               key_view, view_range, status, first_pass, prev_future, cmd, gpu,
               contract, N, left, passes, log, key_frame, prev_dims,
               prev_depth_id, this_next, prev_next, this_drawn, prev_drawn,
               intact, answers>>
\* A call of NoteVertex::new.
vertex_vars == <<args, vertex>>
\* The key events of one call of GuiWasabiWindow::layout.
seek_vars == <<time, allows_seeking_backward, events, pos, seeks>>
\* What draw() and the accelerator do not touch.
other_vars == <<vertex_vars, seek_vars>>

vars == <<draw_vars, vertex_vars, seek_vars>>

\* The fields of NoteRenderPass (lines 105-117) that draw() changes.
self_vars == <<index, depth_dims, depth_id, key_locations, key_frame>>
\* What the caller passes to draw() (lines 237-243).
arg_vars == <<frame, img_dims, key_view, view_range, contract, N, prev_dims,
              prev_depth_id>>
\* History of next() and of the submissions over all frames.
hist_vars == <<this_next, prev_next, this_drawn, prev_drawn>>

\* ------------------------------------------------------- pure functions
\* A next() over a pool of three buffers.
BufferSetNextThree(i) == (i + 1) % 3

\* A next() that stops at the last buffer instead of wrapping around.
BufferSetNextSaturating(i) == Min(i + 1, 1)

\* BufferSet::next (lines 85-88): the new index over the two buffers.
BufferSetNext(i) == (i + 1) % 2

\* The match of lines 279-285 with the assertion left out.
AssertFailsNever(s) == FALSE

\* The match of lines 279-285: TRUE when the assertion of line 281 fails.
AssertFails(s) == s.tag = "Finished" /\ s.remaining > NOTE_BUFFER_SIZE

\* items_to_render that takes the payload of the status in both arms.
ItemsToRenderPayload(s) == s.remaining

\* items_to_render (lines 279-285).
ItemsToRender(s) == IF s.tag = "Finished" THEN s.remaining ELSE NOTE_BUFFER_SIZE

\* A loop condition that never holds: one pass and out.
LoopContinuesNever(s) == FALSE

\* A loop condition that also goes on after a full last buffer.
LoopContinuesOnFull(s) == s = HasMoreNotes \/ s.remaining = NOTE_BUFFER_SIZE

\* The loop condition of line 274.
LoopContinues(s) == s = HasMoreNotes

\* A selection that never leaves the first arm (first_pass not reset).
SelectPassAlwaysFirst(first) ==
    [clears |-> <<"color 0 0 0 0", "depth 1.0">>,
     pipeline |-> "pipeline_clear", render_pass |-> "render_pass_clear"]

\* (clears, pipeline, render_pass) of lines 294-307.
SelectPass(first) ==
    IF first
    THEN [clears |-> <<"color 0 0 0 0", "depth 1.0">>,
          pipeline |-> "pipeline_clear", render_pass |-> "render_pass_clear"]
    ELSE [clears |-> <<"None", "None">>,
          pipeline |-> "pipeline_draw_over", render_pass |-> "render_pass_draw_over"]

\* What a render pass does to its two attachments when it begins (load: of
\* lines 128 and 134, and of lines 153 and 159).
LoadOp(render_pass) ==
    IF render_pass = "render_pass_clear" THEN "Clear" ELSE "DontCare"

\* Are the earlier contents of the attachments still there once a pass with
\* load operation op has begun: after Clear they are replaced by the clear
\* values, after Load they are kept, and after DontCare they are undefined,
\* kept or lost as the accelerator pleases.
ContentsKept(op) ==
    CASE op = "Clear" -> {TRUE}
      [] op = "Load" -> {TRUE}
      [] op = "DontCare" -> {TRUE, FALSE}

\* A test of line 245 that looks at the width alone.
DepthNeedsRecreateWidth(depth, dims) == depth[1] # dims[1]

\* The test of line 245.
DepthNeedsRecreate(depth, dims) == depth # dims

\* A zip that stops one item early.
SlotsWrittenShort(view) == {i \in 1..NumKeys : i < Len(view)}

\* The zip of line 259: the slots that have both a table entry and an item
\* of the view.
SlotsWritten(view) == {i \in 1..NumKeys : i <= Len(view)}

\* Lines 258-265: every zipped slot takes the item of the view.
WriteKeys(table, view) ==
    [i \in 1..NumKeys |-> IF i \in SlotsWritten(view) THEN view[i] ELSE table[i]]

RECURSIVE UlpFrom(_, _)
\* The spacing of f32 values around n: the least power of two u, from u
\* upward, with n < 2^24 * u.
UlpFrom(n, u) == IF n < 16777216 * u THEN u ELSE UlpFrom(n, 2 * u)

\* `n as f32` for an unsigned integer n (lines 340, 341, 350): the nearest
\* value with a 24-bit significand, ties to the even one.
AsF32(n) ==
    LET u == UlpFrom(n, 1)
        q == n \div u
        r == n % u
    IN  IF 2 * r < u THEN q * u
        ELSE IF 2 * r > u THEN (q + 1) * u
        ELSE (IF q % 2 = 0 THEN q ELSE q + 1) * u

\* Uniforms with the two window dimensions exchanged.
PushConstantsSwapped(vr, dims) ==
    [height_time |-> vr, win_width |-> AsF32(dims[2]), win_height |-> AsF32(dims[1])]

\* gs::PushConstants of lines 338-342.
PushConstants(vr, dims) ==
    [height_time |-> vr, win_width |-> AsF32(dims[1]), win_height |-> AsF32(dims[2])]

\* The values of a key id (u8) and of a u32.
KeyIds == 0..(2^KeyBits - 1)
Words == 0..(2^WordBits - 1)

RECURSIVE BitOr(_, _)
\* a | b, bit by bit.
BitOr(a, b) ==
    IF a = 0 THEN b
    ELSE IF b = 0 THEN a
    ELSE (IF a % 2 = 1 \/ b % 2 = 1 THEN 1 ELSE 0) + 2 * BitOr(a \div 2, b \div 2)

\* A shift that keeps the bits that leave the word.
ShlWide(x, n) == x * 2^n

\* x << n on a u32: the bits shifted out of the word are lost.
Shl(x, n) == (x * 2^n) % 2^WordBits

\* NoteVertex::new (lines 43-50), the field key_color: key as u32 | (color << 8).
NoteVertexNew(key, color) == BitOr(key, Shl(color, KeyBits))

\* The key events of window.rs lines 158-181 that matter to the timer, and
\* one that does not seek.
Keys == {"ArrowRight", "ArrowLeft", "Space"}
KeyEvents == [key : Keys, pressed : BOOLEAN]
EventLists == UNION {[1..n -> KeyEvents] : n \in 0..MaxEvents}

\* An operation that panics has this in place of a value.
Panic == -1

\* Duration::from_secs.
DurationFromSecs(n) == n * TicksPerSec
\* Duration - Duration, which panics when the result would be negative.
DurationSub(a, b) == IF b > a THEN Panic ELSE a - b
\* Duration + Duration, far below the range of a Duration.
DurationAdd(a, b) == a + b

\* window.rs line 154.
one_sec == DurationFromSecs(1)

\* The argument of seek on ArrowRight (window.rs line 162).
SeekForwardTarget(t) == DurationAdd(t, one_sec)

\* An ArrowLeft arm that subtracts without comparing first.
SeekBackTargetUnguarded(t) == DurationSub(t, one_sec)

\* The argument of seek on ArrowLeft (window.rs lines 167-171).
SeekBackTarget(t) ==
    IF t <= one_sec THEN DurationFromSecs(0) ELSE DurationSub(t, one_sec)

\* What a producer that follows its contract (spec section 6) returns when
\* l records of the stream remain.
ContractStatus(l) ==
    IF l > NOTE_BUFFER_SIZE THEN HasMoreNotes ELSE Finished(l)

\* ---------------------------------------------------------------- Init
\* NoteRenderPass::new (lines 120-235) and BufferSet::new (77-83).
DrawInit ==
    /\ index = 0
    /\ depth_dims = <<1, 1>>
    /\ depth_id = 0
    /\ key_locations = [i \in 1..NumKeys |-> DefaultKeyPosition]
    /\ pc = "idle"
    /\ frame = 0
    /\ img_dims = NoDims
    /\ key_view = <<>>
    /\ view_range = 0
    /\ status = HasMoreNotes
    /\ first_pass = TRUE
    /\ prev_future = <<>>
    /\ cmd = <<>>
    /\ gpu = {}
    /\ contract = TRUE
    /\ N = 0
    /\ left = 0
    /\ passes = <<>>
    /\ log = <<>>
    /\ key_frame = [i \in 1..NumKeys |-> 0]
    /\ prev_dims = NoDims
    /\ prev_depth_id = 0
    /\ this_next = -1
    /\ prev_next = -1
    /\ this_drawn = -1
    /\ prev_drawn = -1
    /\ intact = TRUE
    /\ answers = <<>>

\* No vertex has been made.
VertexIdle == args = <<>> /\ vertex = -1

\* No layout call has handled a key event.
SeekIdle ==
    /\ time = 0
    /\ allows_seeking_backward = FALSE
    /\ events = <<>>
    /\ pos = 0
    /\ seeks = <<>>

Init == DrawInit /\ VertexIdle /\ SeekIdle

\* -------------------------------------------------------------- actions
\* draw() is called (lines 237-272): the depth buffer follows the image, the
\* key table is refreshed and the locals of the loop are set.
BeginFrame ==
    /\ pc = "idle"
    /\ frame < MaxFrames
    /\ \E dims \in Dims, view \in KeyViews, vr \in ViewRanges, c \in BOOLEAN,
          n \in 0..MaxNotes :
        /\ c \/ n = 0
        /\ view_range' = vr
        /\ frame' = frame + 1
        /\ img_dims' = dims
        /\ prev_dims' = img_dims
        /\ key_view' = view
        /\ prev_depth_id' = depth_id
        /\ IF DepthNeedsRecreate(depth_dims, dims)
           THEN /\ depth_dims' = dims
                /\ depth_id' = depth_id + 1
                /\ log' = <<[op |-> "depth", arg |-> depth_id + 1],
                            [op |-> "keys", arg |-> frame + 1]>>
           ELSE /\ UNCHANGED <<depth_dims, depth_id>>
                /\ log' = <<[op |-> "keys", arg |-> frame + 1]>>
        /\ key_locations' = WriteKeys(key_locations, view)
        /\ key_frame' = [i \in 1..NumKeys |->
                            IF i \in SlotsWritten(view) THEN frame + 1 ELSE key_frame[i]]
        /\ contract' = c
        /\ N' = n
        /\ left' = n
    /\ prev_future' = <<>>
    /\ status' = HasMoreNotes
    /\ first_pass' = TRUE
    /\ cmd' = <<>>
    /\ passes' = <<>>
    /\ pc' = IF LoopContinues(HasMoreNotes) THEN "next" ELSE "drain"
    /\ intact' = TRUE
    /\ answers' = <<>>
    /\ UNCHANGED <<index, gpu, hist_vars>>
    /\ UNCHANGED other_vars

\* A loop that waits for the previous fence at its top, before next().
NextBufferWaitsFirst ==
    /\ pc = "next"
    /\ prev_future # <<>> => prev_future[1] \notin gpu
    /\ prev_future' = <<>>
    /\ index' = BufferSetNext(index)
    /\ this_next' = BufferSetNext(index)
    /\ prev_next' = this_next
    /\ log' = log \o (IF prev_future = <<>> THEN <<>>
                      ELSE <<[op |-> "wait", arg |-> prev_future[1].pass]>>)
                  \o <<[op |-> "next", arg |-> BufferSetNext(index)]>>
    /\ pc' = "fill"
    /\ UNCHANGED <<depth_dims, depth_id, key_locations, key_frame, arg_vars,
                   status, first_pass, cmd, gpu, left, passes,
                   this_drawn, prev_drawn, intact, answers>>
    /\ UNCHANGED other_vars

\* buffer_set.next() (line 275); the producer is then handed the buffer.
NextBuffer ==
    /\ pc = "next"
    /\ index' = BufferSetNext(index)
    /\ this_next' = BufferSetNext(index)
    /\ prev_next' = this_next
    /\ log' = Append(log, [op |-> "next", arg |-> BufferSetNext(index)])
    /\ pc' = "fill"
    /\ UNCHANGED <<depth_dims, depth_id, key_locations, key_frame, arg_vars,
                   status, first_pass, prev_future, cmd, gpu, left, passes,
                   this_drawn, prev_drawn, intact, answers>>
    /\ UNCHANGED other_vars

\* A pass that binds the buffer the producer did not just fill.
BuildPassOtherBuffer(s) ==
    [clears |-> SelectPass(first_pass).clears,
     pipeline |-> SelectPass(first_pass).pipeline,
     render_pass |-> SelectPass(first_pass).render_pass,
     color |-> img_dims,
     depth |-> depth_id,
     depth_dims |-> depth_dims,
     keys |-> key_locations,
     push |-> PushConstants(view_range, img_dims),
     viewport |-> <<AsF32(img_dims[1]), AsF32(img_dims[2])>>,
     buffer |-> 1 - index,
     items |-> ItemsToRender(s)]

\* The command buffer of lines 287-366 for a status s.
BuildPass(s) ==
    [clears |-> SelectPass(first_pass).clears,
     pipeline |-> SelectPass(first_pass).pipeline,
     render_pass |-> SelectPass(first_pass).render_pass,
     color |-> img_dims,
     depth |-> depth_id,
     depth_dims |-> depth_dims,
     keys |-> key_locations,
     push |-> PushConstants(view_range, img_dims),
     viewport |-> <<AsF32(img_dims[1]), AsF32(img_dims[2])>>,
     buffer |-> index,
     items |-> ItemsToRender(s)]

\* A loop body that refreshes the key table again before it builds the pass.
FillRefreshingKeys ==
    /\ pc = "fill"
    /\ \E s \in Responses :
        /\ contract => s = ContractStatus(left)
        /\ ~contract /\ s = HasMoreNotes => Len(passes) + 1 < MaxPasses
        /\ status' = s
        /\ answers' = Append(answers, s)
        /\ left' = IF contract /\ s = HasMoreNotes THEN left - NOTE_BUFFER_SIZE ELSE 0
        /\ log' = log \o <<[op |-> "fill", arg |-> index],
                           [op |-> "keys", arg |-> frame]>>
                       \o (IF AssertFails(s)
                           THEN <<[op |-> "assert failed", arg |-> s.remaining]>>
                           ELSE <<>>)
        /\ IF AssertFails(s)
           THEN /\ pc' = "panicked"
                /\ prev_future' = <<>>
                /\ UNCHANGED <<cmd, first_pass>>
           ELSE /\ cmd' = <<BuildPass(s)>>
                /\ first_pass' = FALSE
                /\ pc' = "wait"
                /\ UNCHANGED prev_future
    /\ key_locations' = WriteKeys(key_locations, key_view)
    /\ UNCHANGED <<index, depth_dims, depth_id, key_frame, arg_vars, hist_vars,
                   gpu, passes, intact>>
    /\ UNCHANGED other_vars

\* A loop body that submits nothing when the producer wrote no record.
FillSkipsEmpty ==
    /\ pc = "fill"
    /\ \E s \in Responses :
        /\ contract => s = ContractStatus(left)
        /\ ~contract /\ s = HasMoreNotes => Len(passes) + 1 < MaxPasses
        /\ status' = s
        /\ answers' = Append(answers, s)
        /\ left' = IF contract /\ s = HasMoreNotes THEN left - NOTE_BUFFER_SIZE ELSE 0
        /\ log' = log \o <<[op |-> "fill", arg |-> index]>>
                       \o (IF AssertFails(s)
                           THEN <<[op |-> "assert failed", arg |-> s.remaining]>>
                           ELSE <<>>)
        /\ IF AssertFails(s)
           THEN /\ pc' = "panicked"
                /\ prev_future' = <<>>
                /\ UNCHANGED <<cmd, first_pass>>
           ELSE IF ItemsToRender(s) = 0
           THEN /\ pc' = "drain"
                /\ UNCHANGED <<cmd, first_pass, prev_future>>
           ELSE /\ cmd' = <<BuildPass(s)>>
                /\ first_pass' = FALSE
                /\ pc' = "wait"
                /\ UNCHANGED prev_future
    /\ UNCHANGED <<self_vars, arg_vars, hist_vars, gpu, passes, intact>>
    /\ UNCHANGED other_vars

\* fill_buffer returns (line 277); the capacity assertion (281) and the
\* build of the command buffer (287-366) follow.  A panic drops prev_future
\* without waiting.
Fill ==
    /\ pc = "fill"
    /\ \E s \in Responses :
        /\ contract => s = ContractStatus(left)
        /\ ~contract /\ s = HasMoreNotes => Len(passes) + 1 < MaxPasses
        /\ status' = s
        /\ answers' = Append(answers, s)
        /\ left' = IF contract /\ s = HasMoreNotes THEN left - NOTE_BUFFER_SIZE ELSE 0
        /\ log' = log \o <<[op |-> "fill", arg |-> index]>>
                       \o (IF AssertFails(s)
                           THEN <<[op |-> "assert failed", arg |-> s.remaining]>>
                           ELSE <<>>)
        /\ IF AssertFails(s)
           THEN /\ pc' = "panicked"
                /\ prev_future' = <<>>
                /\ UNCHANGED <<cmd, first_pass>>
           ELSE /\ cmd' = <<BuildPass(s)>>
                /\ first_pass' = FALSE
                /\ pc' = "wait"
                /\ UNCHANGED prev_future
    /\ UNCHANGED <<self_vars, arg_vars, hist_vars, gpu, passes, intact>>
    /\ UNCHANGED other_vars

\* A step 368-373 whose wait returns at once, finished or not.
WaitPrevNoBlock ==
    /\ pc = "wait"
    /\ IF prev_future = <<>>
       THEN UNCHANGED log
       ELSE \E ok \in BOOLEAN :
                log' = Append(log, [op |-> IF ok THEN "wait" ELSE "wait err",
                                    arg |-> prev_future[1].pass])
    /\ prev_future' = <<>>
    /\ pc' = "submit"
    /\ UNCHANGED <<self_vars, arg_vars, hist_vars, status, first_pass, cmd, gpu,
                   left, passes, intact, answers>>
    /\ UNCHANGED other_vars

\* A step 368-373 that takes prev_future and lets it go without a wait.
WaitPrevDropped ==
    /\ pc = "wait"
    /\ prev_future' = <<>>
    /\ pc' = "submit"
    /\ UNCHANGED <<self_vars, arg_vars, hist_vars, status, first_pass, cmd, gpu,
                   left, passes, log, intact, answers>>
    /\ UNCHANGED other_vars

\* A step 368-373 that unwraps the Result of the wait: an error panics.
WaitPrevUnwrap ==
    /\ pc = "wait"
    /\ IF prev_future = <<>>
       THEN /\ UNCHANGED log
            /\ pc' = "submit"
       ELSE /\ prev_future[1] \notin gpu
            /\ \E ok \in BOOLEAN :
                /\ log' = Append(log, [op |-> IF ok THEN "wait" ELSE "wait err",
                                       arg |-> prev_future[1].pass])
                /\ pc' = IF ok THEN "submit" ELSE "panicked"
    /\ prev_future' = <<>>
    /\ UNCHANGED <<self_vars, arg_vars, hist_vars, status, first_pass, cmd, gpu,
                   left, passes, intact, answers>>
    /\ UNCHANGED other_vars

\* Lines 368-373: wait for the previous iteration's fence, if there is one.
WaitPrev ==
    /\ pc = "wait"
    /\ IF prev_future = <<>>
       THEN UNCHANGED log
       ELSE /\ prev_future[1] \notin gpu
            /\ \E ok \in BOOLEAN :
                log' = Append(log, [op |-> IF ok THEN "wait" ELSE "wait err",
                                    arg |-> prev_future[1].pass])
    /\ prev_future' = <<>>
    /\ pc' = "submit"
    /\ UNCHANGED <<self_vars, arg_vars, hist_vars, status, first_pass, cmd, gpu,
                   left, passes, intact, answers>>
    /\ UNCHANGED other_vars

\* The k-th submission of the current frame, as the accelerator sees it.
Submission(k, pass) ==
    [frame |-> frame, pass |-> k, buffer |-> pass.buffer,
     load |-> LoadOp(pass.render_pass)]

\* A submission whose fence future is dropped instead of kept for a wait.
SubmitForgetsFuture ==
    /\ pc = "submit"
    /\ passes' = Append(passes, cmd[1])
    /\ gpu' = gpu \cup {Submission(Len(passes) + 1, cmd[1])}
    /\ prev_future' = <<>>
    /\ cmd' = <<>>
    /\ this_drawn' = cmd[1].buffer
    /\ prev_drawn' = this_drawn
    /\ log' = Append(log, [op |-> "submit", arg |-> Len(passes) + 1])
    /\ pc' = IF LoopContinues(status) THEN "next" ELSE "drain"
    /\ UNCHANGED <<self_vars, arg_vars, status, first_pass, left, this_next,
                   prev_next, intact, answers>>
    /\ UNCHANGED other_vars

\* Lines 375-385: the command buffer goes to the queue and its fence future
\* becomes prev_future; then the loop condition of line 274.
Submit ==
    /\ pc = "submit"
    /\ passes' = Append(passes, cmd[1])
    /\ gpu' = gpu \cup {Submission(Len(passes) + 1, cmd[1])}
    /\ prev_future' = <<Submission(Len(passes) + 1, cmd[1])>>
    /\ cmd' = <<>>
    /\ this_drawn' = cmd[1].buffer
    /\ prev_drawn' = this_drawn
    /\ log' = Append(log, [op |-> "submit", arg |-> Len(passes) + 1])
    /\ pc' = IF LoopContinues(status) THEN "next" ELSE "drain"
    /\ UNCHANGED <<self_vars, arg_vars, status, first_pass, left, this_next,
                   prev_next, intact, answers>>
    /\ UNCHANGED other_vars

\* Line 383: the flush fails and expect() panics.
SubmitFails ==
    /\ pc = "submit"
    /\ pc' = "panicked"
    /\ cmd' = <<>>
    /\ log' = Append(log, [op |-> "flush failed", arg |-> Len(passes) + 1])
    /\ UNCHANGED <<self_vars, arg_vars, hist_vars, status, first_pass,
                   prev_future, gpu, left, passes, intact, answers>>
    /\ UNCHANGED other_vars

\* A return from draw() that leaves the last fence alone.
DrainNoWait ==
    /\ pc = "drain"
    /\ prev_future' = <<>>
    /\ pc' = "idle"
    /\ UNCHANGED <<self_vars, arg_vars, hist_vars, status, first_pass, cmd, gpu,
                   left, passes, log, intact, answers>>
    /\ UNCHANGED other_vars

\* Lines 388-393: wait for the last fence; draw() returns.
Drain ==
    /\ pc = "drain"
    /\ IF prev_future = <<>>
       THEN UNCHANGED log
       ELSE /\ prev_future[1] \notin gpu
            /\ \E ok \in BOOLEAN :
                log' = Append(log, [op |-> IF ok THEN "wait" ELSE "wait err",
                                    arg |-> prev_future[1].pass])
    /\ prev_future' = <<>>
    /\ pc' = "idle"
    /\ UNCHANGED <<self_vars, arg_vars, hist_vars, status, first_pass, cmd, gpu,
                   left, passes, intact, answers>>
    /\ UNCHANGED other_vars

\* The accelerator runs a submission to its end: the pass begins with its
\* load operation, draws, and stores both attachments.
GpuComplete ==
    /\ \E s \in gpu :
        /\ gpu' = gpu \ {s}
        /\ \E kept \in ContentsKept(s.load) :
            intact' = IF s.load = "Clear" THEN TRUE ELSE intact /\ kept
    /\ UNCHANGED <<self_vars, arg_vars, hist_vars, pc, status, first_pass,
                   prev_future, cmd, left, passes, log, answers>>
    /\ UNCHANGED other_vars

Next ==
    \/ BeginFrame
    \/ NextBuffer
    \/ Fill
    \/ WaitPrev
    \/ Submit
    \/ SubmitFails
    \/ Drain
    \/ GpuComplete

Spec == Init /\ [][Next]_vars

\* ------------------------------------------------------ NoteVertex::new
\* A caller is about to make a vertex for a key id and a color.
VertexInit ==
    /\ DrawInit /\ SeekIdle
    /\ \E key \in KeyIds, color \in Words : args = <<key, color>>
    /\ vertex = -1

\* NoteVertex::new(start, len, key, color) returns.
CallNoteVertexNew ==
    /\ args # <<>> /\ vertex = -1
    /\ vertex' = NoteVertexNew(args[1], args[2])
    /\ UNCHANGED <<draw_vars, seek_vars, args>>

VertexNext == CallNoteVertexNew

VertexSpec == VertexInit /\ [][VertexNext]_vars

\* ------------------------------------------- key events of layout()
\* window.rs lines 153-157: a file is loaded, the time is read from the timer
\* once and the events of this call are about to be handled.
SeekInit ==
    /\ DrawInit /\ VertexIdle
    /\ time \in 0..MaxTime
    /\ allows_seeking_backward \in BOOLEAN
    /\ events \in EventLists
    /\ pos = 0
    /\ seeks = <<>>

\* The for loop of line 158 has an event to handle.
Handling == pos # Panic /\ pos < Len(events)

\* Lines 161-163: ArrowRight pressed.
ArrowRight ==
    /\ Handling
    /\ events[pos + 1] = [key |-> "ArrowRight", pressed |-> TRUE]
    /\ seeks' = Append(seeks, SeekForwardTarget(time))
    /\ pos' = pos + 1
    /\ UNCHANGED <<draw_vars, vertex_vars, time, allows_seeking_backward, events>>

\* Lines 164-173: ArrowLeft pressed.
ArrowLeft ==
    /\ Handling
    /\ events[pos + 1] = [key |-> "ArrowLeft", pressed |-> TRUE]
    /\ IF ~allows_seeking_backward
       THEN /\ pos' = pos + 1
            /\ UNCHANGED seeks
       ELSE IF SeekBackTarget(time) = Panic
       THEN /\ pos' = Panic
            /\ UNCHANGED seeks
       ELSE /\ seeks' = Append(seeks, SeekBackTarget(time))
            /\ pos' = pos + 1
    /\ UNCHANGED <<draw_vars, vertex_vars, time, allows_seeking_backward, events>>

\* Lines 159-160 and 174-181: a key released, or a key that does not seek.
OtherEvent ==
    /\ Handling
    /\ \/ ~events[pos + 1].pressed
       \/ events[pos + 1].key \notin {"ArrowRight", "ArrowLeft"}
    /\ pos' = pos + 1
    /\ UNCHANGED <<draw_vars, vertex_vars, time, allows_seeking_backward, events,
                   seeks>>

SeekNext == ArrowRight \/ ArrowLeft \/ OtherEvent

SeekSpec == SeekInit /\ [][SeekNext]_vars

\* draw() runs on one thread and the accelerator runs beside it: a step of
\* draw() that can be taken is taken, the producer callback returns, and a
\* submission the accelerator holds is finished.
FairSpec ==
    /\ Spec
    /\ WF_vars(NextBuffer)
    /\ WF_vars(Fill)
    /\ WF_vars(WaitPrev)
    /\ WF_vars(Submit)
    /\ WF_vars(Drain)
    /\ WF_vars(GpuComplete)

\* ------------------------------------------------------------ properties
\* draw() has returned normally from the latest frame.
Returned == pc = "idle" /\ frame > 0
\* draw() is running.
InFrame == pc \in {"next", "fill", "wait", "submit", "drain"}

CeilDiv(n, c) == (n + c - 1) \div c

RECURSIVE SumItems(_)
SumItems(ps) == IF ps = <<>> THEN 0 ELSE ps[1].items + SumItems(Tail(ps))

IsClearing(p) ==
    /\ p.render_pass = "render_pass_clear"
    /\ p.pipeline = "pipeline_clear"
    /\ p.clears = <<"color 0 0 0 0", "depth 1.0">>

IsAccumulating(p) ==
    /\ p.render_pass = "render_pass_draw_over"
    /\ p.pipeline = "pipeline_draw_over"
    /\ p.clears = <<"None", "None">>

\* C1: a frame over a stream of N records whose producer follows its
\* contract submits ceil(N / C) passes when N > 0 and one pass when N = 0;
\* while the frame runs it never exceeds that number.
C1_PassCount ==
    contract /\ frame > 0 =>
        LET expected == IF N = 0 THEN 1 ELSE CeilDiv(N, NOTE_BUFFER_SIZE)
        IN  /\ Len(passes) <= expected
            /\ Returned => Len(passes) = expected

\* A frame over exactly C records has returned after one pass.
C1_Witness ==
    Returned /\ contract /\ N = NOTE_BUFFER_SIZE /\ Len(passes) = 1

\* C2: in every frame the first submitted pass is the clearing pass with its
\* clear values and every later pass is the accumulating pass without clear
\* values, so a frame that has submitted anything holds one clearing pass.
C2_ClearThenAccumulate ==
    /\ \A i \in 1..Len(passes) :
        IF i = 1 THEN IsClearing(passes[i]) ELSE IsAccumulating(passes[i])
    /\ cmd # <<>> =>
        IF passes = <<>> THEN IsClearing(cmd[1]) ELSE IsAccumulating(cmd[1])
    /\ Returned => Cardinality({i \in 1..Len(passes) : IsClearing(passes[i])}) = 1

\* The second frame has returned after three passes.
C2_Witness == Returned /\ frame = 2 /\ Len(passes) = 3

\* C3: with a contract-following producer and N > 0, every pass but the
\* last draws C items, the last draws N - (passes - 1) * C items, a number
\* in 1..C, and the draw counts of the frame add up to N.
C3_DrawCounts ==
    Returned /\ contract /\ N > 0 =>
        LET n == Len(passes)
        IN  /\ \A i \in 1..(n - 1) : passes[i].items = NOTE_BUFFER_SIZE
            /\ passes[n].items = N - (n - 1) * NOTE_BUFFER_SIZE
            /\ passes[n].items \in 1..NOTE_BUFFER_SIZE
            /\ SumItems(passes) = N

\* A frame over 2C + 1 records has returned: draw counts C, C, 1.
C3_Witness ==
    /\ Returned /\ contract /\ N = 2 * NOTE_BUFFER_SIZE + 1
    /\ Len(passes) = 3 /\ passes[3].items = 1

IsWait(e) == e.op \in {"wait", "wait err"}

\* C4: while the producer callback holds a buffer, no submission that the
\* accelerator has not finished reads that buffer, and no fence future that
\* is still to be waited on belongs to a submission that reads it.
C4_NoFillOfBufferInUse ==
    pc = "fill" =>
        /\ \A s \in gpu : s.buffer # index
        /\ prev_future # <<>> => prev_future[1].buffer # index

\* Third iteration of the second frame: the producer refills the buffer of
\* pass 1 while pass 2, on the other buffer, is still running.
C4_Witness ==
    /\ pc = "fill" /\ frame = 2 /\ Len(passes) = 2
    /\ passes[1].buffer = index
    /\ gpu # {}

\* C5: two consecutive calls of next() return different buffers and two
\* consecutive submissions draw from different buffers, within a frame and
\* from the last step of a frame to the first step of the next.
C5_Alternation ==
    /\ prev_next # -1 => this_next # prev_next
    /\ prev_drawn # -1 => this_drawn # prev_drawn
    /\ pc = "fill" => this_next = index

\* The first pass of the second frame is submitted; the pass before it is
\* the last pass of the first frame.
C5_Witness ==
    /\ frame = 2 /\ Len(passes) = 1 /\ prev_drawn # -1
    /\ this_drawn = passes[1].buffer

\* C6: a submission after the first of a frame comes after the wait on the
\* fence of the submission before it, no wait comes before the first
\* submission, and the accelerator never holds two unfinished submissions.
C6_WaitBeforeSubmit ==
    /\ Cardinality(gpu) <= 1
    /\ pc = "submit" => gpu = {} /\ prev_future = <<>>
    /\ \A p \in DOMAIN log :
        log[p].op = "submit" /\ log[p].arg > 1 =>
            \E q \in 1..(p - 1) : IsWait(log[q]) /\ log[q].arg = log[p].arg - 1
    /\ \A q \in DOMAIN log :
        IsWait(log[q]) =>
            \E p \in 1..(q - 1) : log[p].op = "submit" /\ log[p].arg = log[q].arg

\* The third pass of a frame is on the accelerator and draw() is about to
\* wait for it.
C6_Witness == pc = "drain" /\ Len(passes) = 3 /\ Cardinality(gpu) = 1

\* C7: when draw() has returned, the fence of the frame's last submission
\* has been waited on and the accelerator holds no unfinished submission;
\* a frame starts with nothing in flight.
C7_DrainedOnReturn ==
    /\ Returned =>
        /\ prev_future = <<>>
        /\ gpu = {}
        /\ IsWait(log[Len(log)]) /\ log[Len(log)].arg = Len(passes)
    /\ pc = "next" /\ passes = <<>> => gpu = {} /\ prev_future = <<>>

\* The first frame has returned after two passes.
C7_Witness == Returned /\ frame = 1 /\ Len(passes) = 2 /\ gpu = {}

\* The steps of the current frame that are of kind op.
Steps(op) == {p \in DOMAIN log : log[p].op = op}

\* C8: in a frame the key table is written once, before the first pass is
\* built, and every pass of the frame is bound to the content written then.
C8_KeysOncePerFrame ==
    frame > 0 =>
        /\ Cardinality(Steps("keys")) = 1
        /\ \A p \in Steps("next") \cup Steps("fill") \cup Steps("submit") :
            \E q \in Steps("keys") : q < p
        /\ \A i \in 1..Len(passes) : passes[i].keys = key_locations
        /\ cmd # <<>> => cmd[1].keys = key_locations

\* Three passes of the second frame are submitted, all bound to one table.
C8_Witness ==
    /\ pc = "drain" /\ frame = 2 /\ Len(passes) = 3
    /\ passes[1].keys = passes[3].keys

\* C9: from the refresh at the start of a frame on, every slot of the key
\* table holds the extent the provider gave in this frame for that key id
\* and was written in this frame.
C9_KeysFullyOverwritten ==
    frame > 0 =>
        \A i \in 1..NumKeys :
            /\ key_locations[i] = key_view[i]
            /\ key_frame[i] = frame
            /\ \A k \in 1..Len(passes) : passes[k].keys[i] = key_view[i]

\* The second frame starts with a table that differs from slot to slot and
\* was written from a view longer than the table.
C9_Witness ==
    /\ pc = "next" /\ frame = 2 /\ passes = <<>>
    /\ Len(key_view) = NumKeys + 1
    /\ key_locations[1] # key_locations[NumKeys]

\* The depth buffer was recreated at the start of the current frame.
Recreated == Steps("depth") # {}
\* The dimensions the depth buffer had when the current frame was entered:
\* those of the image of the frame before, 1 x 1 before the first frame.
DimsBefore == IF frame = 1 THEN <<1, 1>> ELSE prev_dims

\* C10: during a frame the depth buffer has the dimensions of the output
\* image, every pass attaches the depth buffer of its frame, and the depth
\* buffer is a new one exactly when the dimensions differ from those of the
\* frame before.
C10_DepthFollowsImage ==
    frame > 0 =>
        /\ depth_dims = img_dims
        /\ \A i \in 1..Len(passes) :
            passes[i].depth_dims = passes[i].color /\ passes[i].depth = depth_id
        /\ Recreated <=> img_dims # DimsBefore
        /\ depth_id # prev_depth_id <=> Recreated

\* The second frame has the dimensions of the first and draws with the
\* depth buffer the first frame created.
C10_Witness ==
    /\ frame = 2 /\ Len(passes) = 1 /\ img_dims = prev_dims
    /\ depth_id = 1 /\ prev_depth_id = 1 /\ passes[1].depth = 1

\* C11: a status Finished with remaining > C fails the assertion in that
\* iteration, before a command buffer for the batch is built or submitted;
\* no pass draws more than C items, and remaining = C passes the assertion.
C11_CapacityAssertion ==
    /\ \A i \in 1..Len(passes) : passes[i].items <= NOTE_BUFFER_SIZE
    /\ cmd # <<>> => cmd[1].items <= NOTE_BUFFER_SIZE
    /\ frame > 0 /\ pc # "fill" /\ status.tag = "Finished"
          /\ status.remaining > NOTE_BUFFER_SIZE =>
        /\ pc = "panicked"
        /\ cmd = <<>>
        /\ log[Len(log)].op = "assert failed"
        /\ log[Len(log) - 1].op = "fill"
        /\ Cardinality(Steps("submit")) = Cardinality(Steps("fill")) - 1
        /\ Len(passes) = Cardinality(Steps("submit"))
    /\ Steps("assert failed") # {} =>
        status.tag = "Finished" /\ status.remaining > NOTE_BUFFER_SIZE
    /\ status = Finished(NOTE_BUFFER_SIZE) => Steps("assert failed") = {}

\* The producer answers Finished with C + 1 in the second iteration: draw()
\* has panicked with one pass submitted.
C11_Witness ==
    /\ pc = "panicked" /\ status = Finished(NOTE_BUFFER_SIZE + 1)
    /\ Len(passes) = 1 /\ cmd = <<>>

\* C12: a wait that reports an error does not end the frame.  After a
\* failed wait of lines 368-373 draw() stands before the submission of the
\* command buffer it has built, and the next step of the frame is that
\* submission; after a failed wait of lines 388-393 draw() has returned.
\* Only the assertion of line 281 and the flush of line 383 make it panic.
C12_WaitErrorNotFatal ==
    /\ \A q \in Steps("wait err") :
        IF q = Len(log)
        THEN \/ pc = "submit" /\ cmd # <<>> /\ ENABLED Submit
             \/ pc = "idle" /\ log[q].arg = Len(passes)
        ELSE /\ log[q + 1].op \in {"submit", "flush failed"}
             /\ log[q + 1].arg = log[q].arg + 1
    /\ pc = "panicked" => log[Len(log)].op \in {"assert failed", "flush failed"}

\* A frame of three passes has returned although each of its three waits
\* reported an error.
C12_Witness ==
    /\ Returned /\ Len(passes) = 3
    /\ Cardinality(Steps("wait err")) = 3

\* C13: when an accumulating pass begins, what the clearing pass and the
\* earlier accumulating passes of the frame left in the colour and depth
\* attachments is still there, so the attachments always hold the output of
\* every finished pass of the frame.
C13_AccumulatingKeepsContents == intact

\* C14: draw() leaves its loop and returns only with a status Finished, and
\* after a status HasMoreNotes the submission is followed by another
\* iteration; when the producer comes to answer Finished and the waits
\* return, a frame that was started ends, by a return or by a panic of the
\* assertion or of the flush.
C14_RunsToExhaustion ==
    /\ [](pc = "drain" \/ Returned => status.tag = "Finished")
    /\ [](pc = "next" /\ passes # <<>> => status = HasMoreNotes)
    /\ (InFrame ~> (pc = "idle" \/ pc = "panicked"))

\* A frame whose producer answered HasMoreNotes twice has returned.
C14_Witness ==
    /\ Returned /\ Cardinality(Steps("fill")) = 3
    /\ status.tag = "Finished"

\* The steps of kind op that come before position q of the log.
Before(op, q) == {p \in Steps(op) : p < q}

\* C15: in an iteration after the first the producer runs and returns
\* before the fence of the previous submission is waited on: while the
\* producer holds the buffer, prev_future still is the future of the last
\* submission, which reads the other buffer, and every wait on the fence of
\* pass k comes after the fill of iteration k + 1, or after the loop.
C15_WaitAfterFill ==
    /\ pc = "fill" /\ passes # <<>> =>
        /\ prev_future # <<>>
        /\ prev_future[1].pass = Len(passes)
        /\ prev_future[1].buffer # index
    /\ \A q \in DOMAIN log :
        IsWait(log[q]) =>
            \/ Cardinality(Before("fill", q)) = log[q].arg + 1
            \/ /\ Cardinality(Before("fill", q)) = log[q].arg
               /\ q = Len(log) /\ pc = "idle"

\* The producer writes one buffer in the second iteration while the first
\* submission, which reads the other buffer, is still on the accelerator.
C15_Witness ==
    /\ pc = "fill" /\ Len(passes) = 1
    /\ prev_future # <<>> /\ prev_future[1] \in gpu
    /\ prev_future[1].buffer # index

\* The fence waits of the current frame, in the order they returned.
Waits == SelectSeq(log, IsWait)
\* A fence future is held whose submission the accelerator has not finished.
FencePending == prev_future # <<>> /\ prev_future[1] \in gpu

\* C16: the k-th wait of a frame is on the fence of pass k, it comes after
\* submission k and before submission k + 1, in the iteration of pass k + 1
\* or, for the last pass, after the loop; a frame that has returned has as
\* many waits as passes, the last of them at its end.  The two waits stall
\* while the fence is pending and no other step of draw depends on the
\* accelerator.
C16_WaitOncePerPass ==
    /\ \A k \in DOMAIN Waits : Waits[k].arg = k
    /\ Len(Waits) \in {Len(passes) - 1, Len(passes)}
    /\ \A q \in DOMAIN log :
        IsWait(log[q]) =>
            /\ Cardinality(Before("submit", q)) = log[q].arg
            /\ \/ Cardinality(Before("next", q)) = log[q].arg + 1
               \/ q = Len(log) /\ pc = "idle"
    /\ Returned =>
        /\ Len(Waits) = Len(passes)
        /\ IsWait(log[Len(log)])
        /\ log[Len(log)].arg = Len(passes)
    /\ pc = "next" => ENABLED NextBuffer
    /\ pc = "fill" => ENABLED Fill
    /\ pc = "submit" => ENABLED Submit
    /\ pc = "wait" => (ENABLED WaitPrev <=> ~FencePending)
    /\ pc = "drain" => (ENABLED Drain <=> ~FencePending)

\* A frame of three passes has returned after three waits, and the
\* accelerator finished the last pass only while draw was stalled in Drain.
C16_Witness ==
    /\ Returned /\ Len(passes) = 3 /\ Len(Waits) = 3
    /\ Waits[3].arg = 3

\* C17: every submission the accelerator still runs belongs to the current
\* frame and was bound to the key table and the depth buffer as they are now:
\* the table write and the depth recreation of a frame find no submission of
\* an earlier frame pending.
C17_FrameStartQuiescent ==
    /\ pc = "idle" => gpu = {}
    /\ \A s \in gpu :
        /\ s.frame = frame
        /\ s.pass \in DOMAIN passes
        /\ passes[s.pass].keys = key_locations
        /\ passes[s.pass].depth = depth_id

\* The second frame rewrote the table and recreated the depth buffer, and the
\* accelerator runs a pass of that frame.
C17_Witness ==
    /\ frame = 2 /\ Recreated /\ gpu # {}
    /\ \A i \in 1..NumKeys : key_frame[i] = 2
    /\ \E s \in gpu : passes[s.pass].depth = depth_id

IsCycleStep(e) == e.op \in {"next", "fill", "submit"}
\* The next(), producer and submission steps of the current frame, in order.
Cycle == SelectSeq(log, IsCycleStep)

\* C18: the next(), producer and submission steps of a frame come in rounds
\* of three in that order; the producer is handed the buffer next() returned
\* and submission k, the k-th of the frame, reads the buffer of the k-th
\* producer call.  So two producer calls always have a submission between
\* them, and a frame that has returned has as many producer calls as passes.
C18_OneFillOneSubmit ==
    /\ \A j \in DOMAIN Cycle :
        CASE j % 3 = 1 -> Cycle[j].op = "next"
          [] j % 3 = 2 -> /\ Cycle[j].op = "fill"
                          /\ Cycle[j].arg = Cycle[j - 1].arg
          [] j % 3 = 0 -> /\ Cycle[j].op = "submit"
                          /\ Cycle[j].arg = j \div 3
                          /\ passes[j \div 3].buffer = Cycle[j - 1].arg
    /\ Cardinality(Steps("submit")) = Len(passes)
    /\ Cardinality(Steps("fill")) - Len(passes) \in {0, 1}
    /\ Returned => Cardinality(Steps("fill")) = Len(passes)
    /\ Returned => Cardinality(Steps("next")) = Len(passes)

\* A frame of three rounds has returned; its passes read buffers in turn.
C18_Witness ==
    /\ Returned /\ Len(Cycle) = 9
    /\ passes[1].buffer # passes[2].buffer
    /\ passes[3].buffer = passes[1].buffer

\* C20: every pass of a frame, and the command buffer being built, carries
\* the uniforms height_time = view_range of the call, win_width and
\* win_height = width and height of the output image of the call, and a
\* viewport of these dimensions; so all passes of a frame have the same
\* uniforms and viewport.
C20_UniformsPerFrame ==
    /\ \A k \in DOMAIN passes :
        /\ passes[k].push.height_time = view_range
        /\ passes[k].push.win_width = img_dims[1]
        /\ passes[k].push.win_height = img_dims[2]
        /\ passes[k].viewport = img_dims
        /\ passes[k].push = passes[1].push
        /\ passes[k].viewport = passes[1].viewport
    /\ cmd # <<>> =>
        /\ cmd[1].push =
            [height_time |-> view_range, win_width |-> img_dims[1],
             win_height |-> img_dims[2]]
        /\ cmd[1].viewport = img_dims

\* A frame of three passes on an image wider than high, after a frame with
\* another view_range.
C20_Witness ==
    /\ frame = 2 /\ Len(passes) = 3 /\ img_dims = <<2, 1>> /\ view_range = 2
    /\ passes[3].push.win_width = 2 /\ passes[3].push.win_height = 1

\* C19: the index is always 0 or 1 and every pass reads buffer 0 or 1; a
\* step changes the index only if it is the call of next(), and that call
\* always makes it the other of the two; next() can be called whenever the
\* loop reaches it, whatever the accelerator still runs.
C19_TwoBuffers ==
    /\ [](/\ index \in {0, 1}
          /\ \A k \in DOMAIN passes : passes[k].buffer \in {0, 1}
          /\ \A s \in gpu : s.buffer \in {0, 1}
          /\ pc = "next" => ENABLED NextBuffer)
    /\ [][index' # index => pc = "next" /\ pc' = "fill"]_vars
    /\ [][pc = "next" /\ pc' = "fill" =>
            /\ index' = 1 - index
            /\ gpu' = gpu /\ prev_future' = prev_future]_vars

\* The third call of next() has returned the buffer of the first call, while
\* the accelerator still runs the pass that reads the buffer returned before.
C19_Witness ==
    /\ pc = "fill" /\ Len(passes) = 2 /\ frame = 1 /\ index = 1
    /\ \E s \in gpu : s.pass = 2 /\ s.buffer = 1 - index

\* The HasMoreNotes answers among the producer's answers of the current frame.
MoreAnswers == {i \in DOMAIN answers : answers[i] = HasMoreNotes}

\* C21: every answer of the producer but its last in a frame is
\* HasMoreNotes, every answer that passed the capacity assertion gets its
\* pass, and a frame that has returned has submitted 1 + k passes for k
\* HasMoreNotes answers.  When the last answer is Finished with nothing
\* remaining, the last pass draws 0 vertices, is the accumulating pass
\* (the clearing pass when k = 0), and was submitted and waited on last.
C21_PassPerAnswer ==
    /\ \A i \in DOMAIN answers : i < Len(answers) => answers[i] = HasMoreNotes
    /\ Len(passes) <= Cardinality(MoreAnswers) + 1
    /\ pc \in {"next", "drain", "idle"} /\ frame > 0 => Len(passes) = Len(answers)
    /\ Returned =>
        /\ answers[Len(answers)].tag = "Finished"
        /\ Len(passes) = 1 + Cardinality(MoreAnswers)
    /\ Returned /\ answers[Len(answers)] = Finished(0) =>
        LET n == Len(passes) IN
        /\ passes[n].items = 0
        /\ IF n = 1 THEN IsClearing(passes[n]) ELSE IsAccumulating(passes[n])
        /\ \E q \in Steps("submit") :
            /\ log[q].arg = n
            /\ IsWait(log[Len(log)]) /\ log[Len(log)].arg = n /\ q < Len(log)

\* A producer that wrote full buffers twice and then nothing: three passes,
\* the last an accumulating pass that draws nothing.
C21_Witness ==
    /\ Returned /\ ~contract
    /\ answers = <<HasMoreNotes, HasMoreNotes, Finished(0)>>
    /\ Len(passes) = 3 /\ passes[3].items = 0

\* C22: a vertex made from a key id and a color has the key id in the low
\* KeyBits bits of key_color, so it is a slot of the key position table, and
\* the color modulo 2^(WordBits - KeyBits) in the bits above; the color is
\* read back unchanged exactly when it is below 2^(WordBits - KeyBits).
C22_KeyColorPacking ==
    vertex # -1 =>
        LET key == args[1]
            color == args[2]
        IN  /\ vertex \in Words
            /\ vertex = (key + color * 2^KeyBits) % 2^WordBits
            /\ vertex % 2^KeyBits = key
            /\ vertex % 2^KeyBits \in KeyIds
            /\ vertex \div 2^KeyBits = color % 2^(WordBits - KeyBits)
            /\ (vertex \div 2^KeyBits = color) <=> color < 2^(WordBits - KeyBits)

\* A vertex of the highest key id whose color does not fit: the color read
\* back differs.
C22_Witness ==
    /\ vertex # -1
    /\ args = <<2^KeyBits - 1, 2^(WordBits - KeyBits) + 1>>
    /\ vertex % 2^KeyBits = 2^KeyBits - 1
    /\ vertex \div 2^KeyBits = 1

Max(a, b) == IF a >= b THEN a ELSE b

RECURSIVE SeeksFor(_)
\* The seeks the events evs ask for at the time read at the start of the
\* call: one second on for ArrowRight, one second back but not below 0 for
\* ArrowLeft when the file allows it, none otherwise.
SeeksFor(evs) ==
    IF evs = <<>> THEN <<>>
    ELSE LET e == Head(evs)
         IN  (IF e.pressed /\ e.key = "ArrowRight"
                  THEN <<time + TicksPerSec>>
              ELSE IF e.pressed /\ e.key = "ArrowLeft" /\ allows_seeking_backward
                  THEN <<Max(0, time - TicksPerSec)>>
              ELSE <<>>)
             \o SeeksFor(Tail(evs))

\* C23: with t the time read at the start of the layout call, every
\* ArrowLeft press seeks the timer to max(0, t - 1 s) if the file allows
\* seeking backward and does not seek otherwise, every ArrowRight press
\* seeks it to t + 1 s, nothing else seeks, and the subtraction never
\* panics.
C23_ArrowSeek ==
    /\ pos # Panic
    /\ seeks = SeeksFor(SubSeq(events, 1, pos))
    /\ \A i \in DOMAIN seeks : seeks[i] >= 0

\* Half a second into a file that allows seeking backward, ArrowLeft has
\* sought to 0 and ArrowRight to a second and a half.
C23_Witness ==
    /\ pos = 2 /\ time = 1 /\ allows_seeking_backward
    /\ events = <<[key |-> "ArrowLeft", pressed |-> TRUE],
                  [key |-> "ArrowRight", pressed |-> TRUE]>>
    /\ seeks = <<0, 1 + TicksPerSec>>

====
